---- MODULE Spec2Model ----
(***************************************************************************)
(* Model of project1/minesweeper/minesweeper.py: the Minesweeper board,    *)
(* the Sentence class and the MinesweeperAI knowledge engine; and of       *)
(* project0/tictactoe/tictactoe.py.                                        *)
(*                                                                         *)
(* Spec          the agent driven by add_knowledge and make_*_move         *)
(* SpecMark      the agent with direct mark_mine / mark_safe calls as well *)
(* SpecSentence  the methods of one Sentence object                        *)
(* SpecTTT       games of tic-tac-toe                                      *)
(*                                                                         *)
(* A cell is a pair <<i, j>>.  A Sentence is a record [cells, count].      *)
(* knowledge is the list self.knowledge, in insertion order.               *)
(***************************************************************************)
EXTENDS Integers, Sequences, FiniteSets, TLC

\* Bounds of the exploration.
MaxHeight == 3
MaxWidth == 3
MaxMines == 2
MaxCalls == 2
MaxDepth == 6
MaxMarks == 1
MaxSentenceCells == 3

\* Python's None, as returned by make_safe_move / make_random_move.
None == <<>>

VARIABLES
    height,      \* Minesweeper.height = MinesweeperAI.height
    width,       \* Minesweeper.width = MinesweeperAI.width
    board,       \* Minesweeper.mines: the cells whose board[i][j] is True
    moves_made,  \* MinesweeperAI.moves_made
    mines,       \* MinesweeperAI.mines
    safes,       \* MinesweeperAI.safes
    knowledge,   \* MinesweeperAI.knowledge
    pc,          \* position inside the running call, "idle" between calls
    depth,       \* number of nested infer() invocations of the running call
    calls,       \* number of add_knowledge calls made so far
    marks,       \* number of direct mark_mine / mark_safe calls made so far
    op,          \* name of the last call that was started
    arg,         \* <<cell, count>> of the last add_knowledge call
    start_len,   \* len(self.knowledge) when the outermost infer() was entered
    move,        \* local variable move of make_random_move
    ret,         \* value returned by the last make_*_move call
    before       \* the agent as it was when the running or last call started,
                 \* kept when that call repeats the call made just before it

\* One Sentence object and the outcome of the last method called on it.
VARIABLES
    sentence,    \* the object: [cells, count]
    s_call       \* [op, cell, ret, raised, old] of the last call

\* A game of tic-tac-toe.
VARIABLES
    ttt,         \* the current board
    t_pc,        \* where the turn is: "think", "play", "turn" or "raised"
    t_move,      \* what minimax(board) returned in this turn
    optimal,     \* the players all of whose moves so far were minimax(board)
    t_call       \* the last call of result: [op, action, raised, input,
                 \* input_after, board]

ai_vars == <<height, width, board, moves_made, mines, safes, knowledge,
             pc, depth, calls, marks, op, arg, start_len, move, ret,
             before>>
sentence_vars == <<sentence, s_call>>
ttt_vars == <<ttt, t_pc, t_move, optimal, t_call>>

vars == <<ai_vars, sentence_vars, ttt_vars>>

----------------------------------------------------------------------------
\* Minesweeper (the board)

\* The cells of a board of h rows and w columns.
Cells(h, w) == (0..(h - 1)) \X (0..(w - 1))

\* 0 <= i < height and 0 <= j < width
InBounds(h, w, c) == 0 <= c[1] /\ c[1] < h /\ 0 <= c[2] /\ c[2] < w

\* The cells within one row and column of cell, not including cell itself.
Neighbors(cell) ==
    {<<cell[1] + di, cell[2] + dj>> : di \in {-1, 0, 1}, dj \in {-1, 0, 1}}
        \ {cell}

is_mine(b, cell) == cell \in b

nearby_mines(b, h, w, cell) ==
    Cardinality({n \in Neighbors(cell) : InBounds(h, w, n) /\ n \in b})

----------------------------------------------------------------------------
\* Sentence

Sentence(cells, count) == [cells |-> cells, count |-> count]

\* known_mines as it would be if any positive count were taken for all mines.
known_mines_Positive(s) == IF s.count > 0 THEN s.cells ELSE {}

known_mines(s) == IF Cardinality(s.cells) = s.count THEN s.cells ELSE {}

known_safes(s) == IF s.count = 0 THEN s.cells ELSE {}

\* new_cells.remove(cell) raises KeyError when cell is absent (lines 140 and
\* 150), before self.cells or self.count is assigned.
Sentence_raises(s, cell) == cell \notin s.cells

\* Sentence.mark_mine as it would be with the count decremented before the
\* removal is attempted.
Sentence_mark_mine_CountFirst(s, cell) ==
    [cells |-> s.cells \ {cell}, count |-> s.count - 1]

\* The sentence after mark_mine(cell), whether it returned or raised.
Sentence_mark_mine(s, cell) ==
    IF Sentence_raises(s, cell) THEN s
    ELSE [cells |-> s.cells \ {cell}, count |-> s.count - 1]

\* The sentence after mark_safe(cell), whether it returned or raised.
Sentence_mark_safe(s, cell) ==
    [cells |-> s.cells \ {cell}, count |-> s.count]

----------------------------------------------------------------------------
\* MinesweeperAI: the knowledge base is the record [knowledge, safes, mines].

Range(seq) == {seq[i] : i \in DOMAIN seq}

\* mark_mine as it would be if every sentence had the cell discarded and
\* its count decremented, without the membership test.
mark_mine_Unguarded(st, cell) ==
    [st EXCEPT
        !.mines = @ \cup {cell},
        !.knowledge = [i \in DOMAIN @ |->
            [cells |-> @[i].cells \ {cell}, count |-> @[i].count - 1]]]

\* mark_safe as it would be if it only recorded the cell.
mark_safe_SetOnly(st, cell) == [st EXCEPT !.safes = @ \cup {cell}]

\* Whether mark_mine / mark_safe raises: a Sentence method is called only
\* behind "if cell in sentence.cells".
mark_raises(st, cell) ==
    \E i \in DOMAIN st.knowledge :
        /\ cell \in st.knowledge[i].cells
        /\ Sentence_raises(st.knowledge[i], cell)

mark_mine(st, cell) ==
    [st EXCEPT
        !.mines = @ \cup {cell},
        !.knowledge = [i \in DOMAIN @ |->
            IF cell \in @[i].cells THEN Sentence_mark_mine(@[i], cell)
                                   ELSE @[i]]]

mark_safe(st, cell) ==
    [st EXCEPT
        !.safes = @ \cup {cell},
        !.knowledge = [i \in DOMAIN @ |->
            IF cell \in @[i].cells THEN Sentence_mark_safe(@[i], cell)
                                   ELSE @[i]]]

\* "for c in sentence.cells: self.mark_safe(c)": the loop runs over the set
\* object read when the loop starts (mark_safe rebinds sentence.cells to a
\* fresh copy), so every cell of that set is marked.
RECURSIVE MarkSafeEach(_, _)
MarkSafeEach(st, cs) ==
    IF cs = {} THEN st
    ELSE LET c == CHOOSE x \in cs : TRUE
         IN  MarkSafeEach(mark_safe(st, c), cs \ {c})

RECURSIVE MarkMineEach(_, _)
MarkMineEach(st, cs) ==
    IF cs = {} THEN st
    ELSE LET c == CHOOSE x \in cs : TRUE
         IN  MarkMineEach(mark_mine(st, c), cs \ {c})

\* infer() as it would be if each pair were resolved one way only (x taken
\* before y in the list).
InferPass_OneWay(kb) ==
    LET n == Len(kb)
        Hits == {p \in (1..n) \X (1..n) :
                    /\ p[1] < p[2]
                    /\ kb[p[1]] # kb[p[2]]
                    /\ kb[p[2]].cells \subseteq kb[p[1]].cells
                    /\ Sentence(kb[p[1]].cells \ kb[p[2]].cells,
                                kb[p[1]].count - kb[p[2]].count)
                           \notin Range(kb)}
        Nth(m) == CHOOSE p \in Hits :
                     Cardinality({q \in Hits : q[1] < p[1] \/
                                     (q[1] = p[1] /\ q[2] <= p[2])}) = m
        appended == [m \in 1..Cardinality(Hits) |->
                        Sentence(kb[Nth(m)[1]].cells \ kb[Nth(m)[2]].cells,
                                 kb[Nth(m)[1]].count - kb[Nth(m)[2]].count)]
    IN  [knowledge |-> kb \o appended, updated |-> Hits # {}]

\* One execution of the body of infer(): the nested loops over the snapshot
\* old_knowledge, pairs taken in list order.  Returns the grown list and the
\* flag updated.
InferPass(kb) ==
    LET n == Len(kb)
        X(k) == kb[((k - 1) \div n) + 1]
        Y(k) == kb[((k - 1) % n) + 1]
        new_sentence(k) ==
            Sentence(X(k).cells \ Y(k).cells, X(k).count - Y(k).count)
        \* the pairs (x, y), numbered in loop order, that append a sentence
        Hits == {k \in 1..(n * n) :
                    /\ X(k) # Y(k)
                    /\ Y(k).cells \subseteq X(k).cells
                    /\ new_sentence(k) \notin Range(kb)}
        Nth(m) == CHOOSE k \in Hits : Cardinality({q \in Hits : q <= k}) = m
        appended == [m \in 1..Cardinality(Hits) |-> new_sentence(Nth(m))]
    IN  [knowledge |-> kb \o appended, updated |-> Hits # {}]

\* Two sentences with the same cells and different counts.  From such a
\* list every execution of the body of infer() appends a sentence: the pair
\* yields ({}, d) and ({}, -d) with d # 0, and a finite set of two or more
\* counts of empty sentences is never closed under the difference of its
\* distinct members (its maximum M and minimum m would need m >= 0 >= M).
\* Without such a pair the sentences are at most one per set of cells.
Contradictory(kb) ==
    \E i, j \in DOMAIN kb :
        kb[i].cells = kb[j].cells /\ kb[i].count # kb[j].count

\* "mark new known cells": the loop over self.knowledge at the end of
\* add_knowledge, from list position i on.
RECURSIVE MarkKnown(_, _)
MarkKnown(st, i) ==
    IF i > Len(st.knowledge) THEN st
    ELSE LET s   == st.knowledge[i]
             st1 == IF s.count = 0 THEN MarkSafeEach(st, s.cells) ELSE st
             s1  == st1.knowledge[i]
             st2 == IF s1.count = Cardinality(s1.cells)
                    THEN MarkMineEach(st1, s1.cells) ELSE st1
         IN  MarkKnown(st2, i + 1)

\* The bounds test of valid_neighbors.
ValidBounds(h, w, c) == 0 <= c[1] /\ c[1] < w /\ 0 <= c[2] /\ c[2] < w

\* The Sentence built by add_knowledge(cell, count), evaluated after
\* moves_made.add(cell) and mark_safe(cell).
NewSentence(h, w, made, sf, mn, cell, count) ==
    LET neighbors == Neighbors(cell)
        cnt == count - Cardinality({n \in neighbors : n \in mn})
        valid_neighbors ==
            {n \in neighbors : /\ ValidBounds(h, w, n)
                               /\ n \notin made
                               /\ n \notin sf
                               /\ n \notin mn}
    IN  Sentence(valid_neighbors, cnt)

\* make_safe_move as it would be without the test against moves_made.
SafeMoves_AnySafe(sf, made) ==
    IF sf = {} THEN {None} ELSE sf

\* The values make_safe_move can return: the first m of self.safes, in the
\* set's iteration order, that is not in moves_made; None if there is none.
SafeMoves(sf, made) ==
    IF \A m \in sf : m \in made THEN {None}
    ELSE {m \in sf : m \notin made}

KB == [knowledge |-> knowledge, safes |-> safes, mines |-> mines]

\* The value of before for a call that repeats the call made just before it.
Snapshot(name) ==
    [repeats |-> name, knowledge |-> knowledge, safes |-> safes,
     mines |-> mines, moves_made |-> moves_made]

NoSnapshot ==
    [repeats |-> "none", knowledge |-> <<>>, safes |-> {}, mines |-> {},
     moves_made |-> {}]

----------------------------------------------------------------------------
\* tic-tac-toe

X == "X"
O == "O"
EMPTY == "EMPTY"

\* A board is a list of three rows of three marks; rows and columns are
\* numbered from 0.
initial_state == [i \in 0..2 |-> [j \in 0..2 |-> EMPTY]]

\* row.count(mark)
RowCount(row, mark) ==
    (IF row[0] = mark THEN 1 ELSE 0) + (IF row[1] = mark THEN 1 ELSE 0)
        + (IF row[2] = mark THEN 1 ELSE 0)

\* sum(row.count(mark) for row in board)
MarkCount(b, mark) ==
    RowCount(b[0], mark) + RowCount(b[1], mark) + RowCount(b[2], mark)

player(b) == IF MarkCount(b, X) <= MarkCount(b, O) THEN X ELSE O

\* (i, j) for i in range(3) for j in range(3), in the order of the loops.
Positions ==
    << <<0, 0>>, <<0, 1>>, <<0, 2>>,
       <<1, 0>>, <<1, 1>>, <<1, 2>>,
       <<2, 0>>, <<2, 1>>, <<2, 2>> >>

\* The list of the empty positions, rows first.
actions(b) == SelectSeq(Positions, LAMBDA p : b[p[1]][p[2]] = EMPTY)

\* result(board, action) as it would be if it wrote into the board it was
\* given (updated_board = board) instead of into a copy of its rows.
result_InPlace(b, action) ==
    IF b[action[1]][action[2]] # EMPTY
    THEN [raised |-> TRUE, board |-> b, input |-> b]
    ELSE LET updated_board == [b EXCEPT ![action[1]][action[2]] = player(b)]
         IN  [raised |-> FALSE, board |-> updated_board,
              input |-> updated_board]

\* result(board, action): whether it raised, the board it returned (the
\* board given, when it raised) and the board it was given as it is after
\* the call.
result(b, action) ==
    IF b[action[1]][action[2]] # EMPTY
    THEN [raised |-> TRUE, board |-> b, input |-> b]
    ELSE [raised |-> FALSE,
          board |-> [b EXCEPT ![action[1]][action[2]] = player(b)],
          input |-> b]

win(flag, b) ==
    \/ flag = b[0][0] /\ flag = b[0][1] /\ flag = b[0][2]
    \/ flag = b[1][0] /\ flag = b[1][1] /\ flag = b[1][2]
    \/ flag = b[2][0] /\ flag = b[2][1] /\ flag = b[2][2]
    \/ flag = b[0][0] /\ flag = b[1][0] /\ flag = b[2][0]
    \/ flag = b[0][1] /\ flag = b[1][1] /\ flag = b[2][1]
    \/ flag = b[0][2] /\ flag = b[1][2] /\ flag = b[2][2]
    \/ flag = b[0][0] /\ flag = b[1][1] /\ flag = b[2][2]
    \/ flag = b[2][0] /\ flag = b[1][1] /\ flag = b[0][2]

\* What winner returns when nobody has won.
NoWinner == "None"

winner(b) == IF win(X, b) THEN X ELSE IF win(O, b) THEN O ELSE NoWinner

terminal(b) ==
    \/ winner(b) # NoWinner
    \/ MarkCount(b, EMPTY) = 0

utility(b) == IF X = winner(b) THEN 1 ELSE IF O = winner(b) THEN -1 ELSE 0

\* float("-inf") and float("inf"): below and above every utility.
neg_inf == -2
pos_inf == 2

RECURSIVE max_value(_), min_value(_), MaxLoop(_, _, _), MinLoop(_, _, _)

\* The loop of max_value with v starting at float("inf") as in min_value: no
\* value is strictly greater, so the locals never change.
MaxLoop_FromInf(b, acts, i) == <<pos_inf, None>>

\* The locals <<v, move>> of max_value after its for loop has gone through
\* the first i actions: only a strictly greater value replaces them.
MaxLoop(b, acts, i) ==
    IF i = 0 THEN <<neg_inf, None>>
    ELSE LET prev == MaxLoop(b, acts, i - 1)
             temp == min_value(result(b, acts[i]).board)[1]
         IN  IF temp > prev[1] THEN <<temp, acts[i]>> ELSE prev

\* The same for min_value: only a strictly smaller value replaces them.
MinLoop(b, acts, i) ==
    IF i = 0 THEN <<pos_inf, None>>
    ELSE LET prev == MinLoop(b, acts, i - 1)
             temp == max_value(result(b, acts[i]).board)[1]
         IN  IF temp < prev[1] THEN <<temp, acts[i]>> ELSE prev

max_value(b) ==
    IF terminal(b) THEN <<utility(b), None>>
    ELSE LET acts == actions(b) IN MaxLoop(b, acts, Len(acts))

min_value(b) ==
    IF terminal(b) THEN <<utility(b), None>>
    ELSE LET acts == actions(b) IN MinLoop(b, acts, Len(acts))

\* minimax without the search: the first action of actions(board).
minimax_FirstAction(b) ==
    IF terminal(b) THEN None
    ELSE actions(b)[1]

minimax(b) ==
    IF terminal(b) THEN None
    ELSE IF player(b) = X THEN max_value(b)[2]
    ELSE min_value(b)[2]

----------------------------------------------------------------------------
\* The variables of the other specifications, at rest.

NoSentenceCall ==
    [op |-> "none", cell |-> None, ret |-> {}, raised |-> FALSE,
     old |-> Sentence({}, 0)]

SentenceAtRest == sentence = Sentence({}, 0) /\ s_call = NoSentenceCall

NoResultCall ==
    [op |-> "none", action |-> None, raised |-> FALSE,
     input |-> initial_state, input_after |-> initial_state,
     board |-> initial_state]

TTTAtRest ==
    /\ ttt = initial_state
    /\ t_pc = "think"
    /\ t_move = None
    /\ optimal = {X, O}
    /\ t_call = NoResultCall

----------------------------------------------------------------------------
\* Initial state: a board of some size with some mines, and a fresh agent.

Init ==
    /\ height \in 1..MaxHeight
    /\ width \in 1..MaxWidth
    /\ board \in {b \in SUBSET Cells(height, width) : Cardinality(b) <= MaxMines}
    /\ moves_made = {}
    /\ mines = {}
    /\ safes = {}
    /\ knowledge = <<>>
    /\ pc = "idle"
    /\ depth = 0
    /\ calls = 0
    /\ marks = 0
    /\ op = "init"
    /\ arg = <<None, 0>>
    /\ start_len = 0
    /\ move = None
    /\ ret = None
    /\ before = NoSnapshot
    /\ SentenceAtRest
    /\ TTTAtRest

\* add_knowledge(cell, nearby_mines(cell)) for a cell that is not a mine:
\* lines 229-244, up to the append of the new sentence.
add_knowledge ==
    /\ pc = "idle"
    /\ calls < MaxCalls
    /\ \E cell \in Cells(height, width) :
          /\ ~is_mine(board, cell)
          /\ LET count == nearby_mines(board, height, width, cell)
                 st    == mark_safe(KB, cell)
                 made  == moves_made \cup {cell}
                 s     == NewSentence(height, width, made, st.safes,
                                      st.mines, cell, count)
             IN  /\ moves_made' = made
                 /\ safes' = st.safes
                 /\ mines' = st.mines
                 /\ knowledge' = Append(st.knowledge, s)
                 /\ arg' = <<cell, count>>
                 /\ start_len' = Len(st.knowledge) + 1
                 /\ before' = IF op = "add_knowledge" /\ arg = <<cell, count>>
                              THEN Snapshot("add_knowledge")
                              ELSE NoSnapshot
    /\ pc' = "infer"
    /\ depth' = 0
    /\ calls' = calls + 1
    /\ op' = "add_knowledge"
    /\ move' = None
    /\ ret' = None
    /\ UNCHANGED <<marks, sentence_vars, ttt_vars>>
    /\ UNCHANGED <<height, width, board>>

\* One invocation of infer() that found something new and calls itself.
infer_again ==
    /\ pc = "infer"
    /\ InferPass(knowledge).updated
    /\ ~Contradictory(knowledge)
    /\ depth < MaxDepth
    /\ knowledge' = InferPass(knowledge).knowledge
    /\ depth' = depth + 1
    /\ UNCHANGED <<marks, before, sentence_vars, ttt_vars>>
    /\ UNCHANGED <<height, width, board, moves_made, mines, safes, pc, calls,
                   op, arg, start_len, move, ret>>

\* infer() keeps calling itself, every invocation appending to a list that
\* grows without bound, until the interpreter's recursion limit or its memory
\* stops it: add_knowledge does not return.
infer_diverges ==
    /\ pc = "infer"
    /\ InferPass(knowledge).updated
    /\ (Contradictory(knowledge) \/ depth >= MaxDepth)
    /\ pc' = "diverged"
    /\ UNCHANGED <<marks, before, sentence_vars, ttt_vars>>
    /\ UNCHANGED <<height, width, board, moves_made, mines, safes, knowledge,
                   depth, calls, op, arg, start_len, move, ret>>

\* The invocation of infer() that finds nothing new: infer returns.
infer_return ==
    /\ pc = "infer"
    /\ ~InferPass(knowledge).updated
    /\ pc' = "mark"
    /\ UNCHANGED <<marks, before, sentence_vars, ttt_vars>>
    /\ UNCHANGED <<height, width, board, moves_made, mines, safes, knowledge,
                   depth, calls, op, arg, start_len, move, ret>>

\* Lines 249-256: the marking pass, then add_knowledge returns.
mark_known ==
    /\ pc = "mark"
    /\ LET st == MarkKnown(KB, 1)
       IN  /\ knowledge' = st.knowledge
           /\ safes' = st.safes
           /\ mines' = st.mines
    /\ pc' = "idle"
    /\ UNCHANGED <<marks, before, sentence_vars, ttt_vars>>
    /\ UNCHANGED <<height, width, board, moves_made, depth, calls, op, arg,
                   start_len, move, ret>>

make_safe_move ==
    /\ pc = "idle"
    /\ ret' \in SafeMoves(safes, moves_made)
    /\ op' = "make_safe_move"
    /\ UNCHANGED <<marks, before, sentence_vars, ttt_vars>>
    /\ UNCHANGED <<height, width, board, moves_made, mines, safes, knowledge,
                   pc, depth, calls, arg, start_len, move>>

\* make_random_move, line 279-280: no possible move.
make_random_move_none ==
    /\ pc = "idle"
    /\ Cardinality(moves_made) + Cardinality(mines) = height * width
    /\ ret' = None
    /\ op' = "make_random_move"
    /\ UNCHANGED <<marks, before, sentence_vars, ttt_vars>>
    /\ UNCHANGED <<height, width, board, moves_made, mines, safes, knowledge,
                   pc, depth, calls, arg, start_len, move>>

\* make_random_move, line 282: the first draw.
make_random_move_draw ==
    /\ pc = "idle"
    /\ Cardinality(moves_made) + Cardinality(mines) # height * width
    /\ move' \in Cells(height, width)
    /\ pc' = "random_loop"
    /\ op' = "make_random_move"
    /\ ret' = None
    /\ UNCHANGED <<marks, before, sentence_vars, ttt_vars>>
    /\ UNCHANGED <<height, width, board, moves_made, mines, safes, knowledge,
                   depth, calls, arg, start_len>>

\* make_random_move, lines 283-284: one iteration of the while loop.
make_random_move_redraw ==
    /\ pc = "random_loop"
    /\ (move \in moves_made \/ move \in mines)
    /\ move' \in Cells(height, width)
    /\ UNCHANGED <<marks, before, sentence_vars, ttt_vars>>
    /\ UNCHANGED <<height, width, board, moves_made, mines, safes, knowledge,
                   pc, depth, calls, op, arg, start_len, ret>>

\* make_random_move, line 286.
make_random_move_return ==
    /\ pc = "random_loop"
    /\ ~(move \in moves_made \/ move \in mines)
    /\ ret' = move
    /\ pc' = "idle"
    /\ UNCHANGED <<marks, before, sentence_vars, ttt_vars>>
    /\ UNCHANGED <<height, width, board, moves_made, mines, safes, knowledge,
                   depth, calls, op, arg, start_len, move>>

Next ==
    \/ add_knowledge
    \/ infer_again
    \/ infer_diverges
    \/ infer_return
    \/ mark_known
    \/ make_safe_move
    \/ make_random_move_none
    \/ make_random_move_draw
    \/ make_random_move_redraw
    \/ make_random_move_return

Spec == Init /\ [][Next]_vars

----------------------------------------------------------------------------
\* The agent with its methods mark_mine and mark_safe called directly as
\* well, on any cell of the board.

call_mark_mine ==
    /\ pc = "idle"
    /\ marks < MaxMarks
    /\ \E cell \in Cells(height, width) :
          /\ ~mark_raises(KB, cell)
          /\ LET st == mark_mine(KB, cell)
             IN  /\ knowledge' = st.knowledge
                 /\ safes' = st.safes
                 /\ mines' = st.mines
          /\ arg' = <<cell, 0>>
    /\ op' = "mark_mine"
    /\ marks' = marks + 1
    /\ UNCHANGED <<height, width, board, moves_made, pc, depth, calls,
                   start_len, move, ret, before>>
    /\ UNCHANGED <<sentence_vars, ttt_vars>>

call_mark_safe ==
    /\ pc = "idle"
    /\ marks < MaxMarks
    /\ \E cell \in Cells(height, width) :
          /\ ~mark_raises(KB, cell)
          /\ LET st == mark_safe(KB, cell)
             IN  /\ knowledge' = st.knowledge
                 /\ safes' = st.safes
                 /\ mines' = st.mines
          /\ arg' = <<cell, 0>>
    /\ op' = "mark_safe"
    /\ marks' = marks + 1
    /\ UNCHANGED <<height, width, board, moves_made, pc, depth, calls,
                   start_len, move, ret, before>>
    /\ UNCHANGED <<sentence_vars, ttt_vars>>

NextMark ==
    \/ add_knowledge
    \/ infer_again
    \/ infer_diverges
    \/ infer_return
    \/ mark_known
    \/ call_mark_mine
    \/ call_mark_safe

SpecMark == Init /\ [][NextMark]_vars

----------------------------------------------------------------------------
\* One Sentence object, with its methods called in any order on any cell.

AIAtRest ==
    /\ height = 1
    /\ width = 1
    /\ board = {}
    /\ moves_made = {}
    /\ mines = {}
    /\ safes = {}
    /\ knowledge = <<>>
    /\ pc = "idle"
    /\ depth = 0
    /\ calls = 0
    /\ marks = 0
    /\ op = "init"
    /\ arg = <<None, 0>>
    /\ start_len = 0
    /\ move = None
    /\ ret = None
    /\ before = NoSnapshot

\* The cells a sentence is drawn from, and the cells passed to its methods.
SentenceCells == Cells(1, MaxSentenceCells)

\* Sentence(cells, count): the counts include those outside 0..|cells|,
\* which the constructor accepts.
InitSentence ==
    /\ sentence \in {Sentence(cs, n) : cs \in SUBSET SentenceCells,
                                       n \in (-1)..(MaxSentenceCells + 1)}
    /\ s_call = NoSentenceCall
    /\ AIAtRest
    /\ TTTAtRest

s_known_mines ==
    /\ s_call' = [op |-> "known_mines", cell |-> None,
                  ret |-> known_mines(sentence), raised |-> FALSE,
                  old |-> sentence]
    /\ UNCHANGED <<sentence, ai_vars, ttt_vars>>

s_known_safes ==
    /\ s_call' = [op |-> "known_safes", cell |-> None,
                  ret |-> known_safes(sentence), raised |-> FALSE,
                  old |-> sentence]
    /\ UNCHANGED <<sentence, ai_vars, ttt_vars>>

s_mark_mine ==
    /\ \E cell \in SentenceCells :
          /\ sentence' = Sentence_mark_mine(sentence, cell)
          /\ s_call' = [op |-> "mark_mine", cell |-> cell, ret |-> {},
                        raised |-> Sentence_raises(sentence, cell),
                        old |-> sentence]
    /\ UNCHANGED <<ai_vars, ttt_vars>>

s_mark_safe ==
    /\ \E cell \in SentenceCells :
          /\ sentence' = Sentence_mark_safe(sentence, cell)
          /\ s_call' = [op |-> "mark_safe", cell |-> cell, ret |-> {},
                        raised |-> Sentence_raises(sentence, cell),
                        old |-> sentence]
    /\ UNCHANGED <<ai_vars, ttt_vars>>

NextSentence ==
    \/ s_known_mines
    \/ s_known_safes
    \/ s_mark_mine
    \/ s_mark_safe

SpecSentence == InitSentence /\ [][NextSentence]_vars

----------------------------------------------------------------------------
\* A game of tic-tac-toe from initial_state(). In each turn minimax is asked
\* for the board, then the player to move plays any cell: an empty one, and
\* the game goes on from the board result returns, or an occupied one, and
\* result raises, which ends the run.

InitTTT ==
    /\ TTTAtRest
    /\ AIAtRest
    /\ SentenceAtRest

call_minimax ==
    /\ t_pc = "think"
    /\ t_move' = minimax(ttt)
    /\ t_pc' = "play"
    /\ UNCHANGED <<ttt, optimal, t_call, ai_vars, sentence_vars>>

call_result ==
    /\ t_pc = "play"
    /\ ~terminal(ttt)
    /\ \E k \in DOMAIN Positions :
        LET action == Positions[k]
            r == result(ttt, action)
        IN  /\ t_call' = [op |-> "result", action |-> action,
                          raised |-> r.raised, input |-> ttt,
                          input_after |-> r.input, board |-> r.board]
            /\ t_pc' = IF r.raised THEN "raised" ELSE "turn"
            /\ optimal' = IF r.raised \/ action = t_move THEN optimal
                          ELSE optimal \ {player(ttt)}
    /\ UNCHANGED <<ttt, t_move, ai_vars, sentence_vars>>

\* board = result(board, move): the game goes on from the returned board.
next_turn ==
    /\ t_pc = "turn"
    /\ ttt' = t_call.board
    /\ t_call' = NoResultCall
    /\ t_move' = None
    /\ t_pc' = "think"
    /\ UNCHANGED <<optimal, ai_vars, sentence_vars>>

NextTTT ==
    \/ call_minimax
    \/ call_result
    \/ next_turn

SpecTTT == InitTTT /\ [][NextTTT]_vars

----------------------------------------------------------------------------
TypeOK ==
    /\ pc \in {"idle", "infer", "mark", "random_loop", "diverged"}
    /\ moves_made \subseteq Cells(height, width)
    /\ calls \in 0..MaxCalls
    /\ pc = "diverged" => Contradictory(knowledge)

----------------------------------------------------------------------------
\* C1. Soundness: in every state reached by add_knowledge calls with truthful
\* counts on non-mine cells, every cell in mines is a mine of the board and
\* no cell in safes is a mine of the board.
Soundness == mines \subseteq board /\ safes \cap board = {}

\* C2. Termination: infer never keeps producing new sentences forever; every
\* add_knowledge call gets past its inference passes.
InferTerminates == pc # "diverged"

\* C3. No cell is in both safes and mines.
SafesMinesDisjoint == safes \cap mines = {}

\* C4. The sentence add_knowledge builds has as cells the neighbours of the
\* cell that lie on the board (0 <= r < height, 0 <= c < width) and are not
\* in moves_made, safes or mines, and as count the reported count minus the
\* number of neighbours already in mines.
BuiltSentence ==
    (pc = "infer" /\ depth = 0) =>
        knowledge[Len(knowledge)] =
            Sentence({n \in Neighbors(arg[1]) :
                         /\ InBounds(height, width, n)
                         /\ n \notin moves_made
                         /\ n \notin safes
                         /\ n \notin mines},
                     arg[2] - Cardinality(Neighbors(arg[1]) \cap mines))

\* C5. When add_knowledge returns the knowledge base is at a global fixpoint:
\* no sentence with cells has count 0 or count = |cells|, and one more
\* inference step and marking pass changes neither the sentence values nor
\* safes nor mines.
GlobalFixpoint ==
    (pc = "idle" /\ calls > 0) =>
        /\ \A s \in Range(knowledge) :
              s.cells # {} => (s.count # 0 /\ s.count # Cardinality(s.cells))
        /\ LET st == MarkKnown([knowledge |-> InferPass(knowledge).knowledge,
                                safes |-> safes, mines |-> mines], 1)
           IN  /\ Range(st.knowledge) = Range(knowledge)
               /\ st.safes = safes
               /\ st.mines = mines

\* C6. The insertion step of add_knowledge leaves the length of knowledge as
\* it was when the new sentence has no cells or equals a sentence already in
\* knowledge.
SkipsDegenerateOrDuplicate ==
    [][(pc = "idle" /\ pc' = "infer") =>
          LET s   == NewSentence(height, width, moves_made', safes', mines',
                                 arg'[1], arg'[2])
              old == mark_safe(KB, arg'[1]).knowledge
          IN  (s.cells = {} \/ s \in Range(old)) =>
                  Len(knowledge') = Len(knowledge)]_vars

\* C7. Corridor of height 1 and width 3: once the middle cell has been given
\* to add_knowledge with count 1 and the safe end has been revealed, the
\* other end is in mines when add_knowledge returns.
Corridor ==
    (/\ height = 1 /\ width = 3
     /\ pc = "idle"
     /\ Cardinality(board) = 1
     /\ <<0, 1>> \notin board
     /\ moves_made = Cells(1, 3) \ board) => board \subseteq mines

\* C8. Subset resolution: for every two sentences x, y of different value
\* in knowledge when infer starts, with y.cells a subset of x.cells,
\* knowledge holds (x.cells - y.cells, x.count - y.count) when infer returns;
\* and from X = {A,B,C} = 1 and Y = {B,C} = 1 (knowledge holding just two
\* well-formed sentences of equal count, one a proper part of the other) the
\* marking pass puts the cells of X - Y into safes.
SubsetResolution ==
    [][(pc = "mark" /\ pc' = "idle") =>
          \A i, j \in 1..start_len :
              LET x == knowledge[i]
                  y == knowledge[j]
              IN  (x # y /\ y.cells \subseteq x.cells) =>
                      /\ Sentence(x.cells \ y.cells, x.count - y.count)
                             \in Range(knowledge)
                      /\ (/\ start_len = 2
                          /\ y.cells # {}
                          /\ x.count = y.count
                          /\ 0 <= y.count /\ y.count <= Cardinality(y.cells))
                             => (x.cells \ y.cells) \subseteq safes']_vars

\* infer has returned after it started from two sentences x and y, y a
\* proper non-empty part of x with the same count, and appended the sentence
\* (x.cells - y.cells, 0), which it did not start with.
SubsetResolutionWitness ==
    /\ pc = "mark"
    /\ start_len = 2
    /\ \E i, j \in 1..start_len :
          LET x == knowledge[i]
              y == knowledge[j]
          IN  /\ y.cells \subseteq x.cells
              /\ y.cells # {} /\ y.cells # x.cells
              /\ x.count = y.count /\ x.count > 0
              /\ \E k \in (start_len + 1)..Len(knowledge) :
                    knowledge[k] = Sentence(x.cells \ y.cells, 0)

\* C9. make_safe_move returns None exactly when safes is a subset of
\* moves_made, otherwise a cell of safes that is not in moves_made, and it
\* leaves knowledge, safes, mines and moves_made unchanged.
SafeMoveContract ==
    [][(pc = "idle" /\ op' = "make_safe_move") =>
          /\ (ret' = None) <=> (safes \subseteq moves_made)
          /\ ret' # None => (ret' \in safes /\ ret' \notin moves_made)
          /\ UNCHANGED <<knowledge, safes, mines, moves_made>>]_vars

\* make_safe_move has returned a cell while safes also holds cells already
\* played.
SafeMoveWitness ==
    /\ op = "make_safe_move" /\ ret # None
    /\ moves_made # {}
    /\ ret \in safes \ moves_made

\* make_safe_move has returned None with safes not empty.
SafeMoveNoneWitness ==
    /\ op = "make_safe_move" /\ ret = None /\ safes # {}

\* C10. make_random_move returns None if moves_made and mines together cover
\* the board; otherwise its loop can leave with a cell and it returns a cell
\* of the board that is neither in moves_made nor in mines.
RandomMoveContract ==
    LET covered == Cells(height, width) \subseteq (moves_made \cup mines)
        free    == Cells(height, width) \ (moves_made \cup mines)
    IN  /\ (op = "make_random_move" /\ pc = "idle") =>
               IF covered THEN ret = None ELSE ret \in free
        /\ pc = "random_loop" => ~covered

\* C11. add_knowledge(cell, count) called again right after a call with the
\* same cell and count leaves knowledge, safes, mines and moves_made as they
\* were after the first call.
ReprocessIdempotent ==
    (pc = "idle" /\ before.repeats = "add_knowledge") =>
        /\ knowledge = before.knowledge
        /\ safes = before.safes
        /\ mines = before.mines
        /\ moves_made = before.moves_made

\* C18. Every sentence in knowledge has 0 <= count <= |cells|.
CountWithinCells ==
    \A s \in Range(knowledge) : 0 <= s.count /\ s.count <= Cardinality(s.cells)

\* C19. Every cell in safes, in mines and in a sentence, and every cell
\* make_safe_move returns, lies on the board.
CellsOnBoard ==
    /\ safes \subseteq Cells(height, width)
    /\ mines \subseteq Cells(height, width)
    /\ \A s \in Range(knowledge) : s.cells \subseteq Cells(height, width)
    /\ (op = "make_safe_move" /\ ret # None) => ret \in Cells(height, width)

\* C12. MinesweeperAI.mark_mine(cell) and mark_safe(cell) never fail, and a
\* second call with the same cell leaves knowledge, mines and safes as the
\* first call left them.
MarkIdempotent ==
    /\ (pc = "idle" /\ op = "mark_mine") =>
           /\ mark_mine(KB, arg[1]) = KB
           /\ ~mark_raises(KB, arg[1])
    /\ (pc = "idle" /\ op = "mark_safe") =>
           /\ mark_safe(KB, arg[1]) = KB
           /\ ~mark_raises(KB, arg[1])
    /\ pc = "idle" => \A cell \in Cells(height, width) : ~mark_raises(KB, cell)

\* mark_mine has returned for a cell of a sentence built by add_knowledge,
\* which is left with cells and count 0.
MarkIdempotentWitness ==
    /\ pc = "idle"
    /\ op = "mark_mine"
    /\ calls > 0
    /\ arg[1] \in mines
    /\ \E s \in Range(knowledge) : s.cells # {} /\ s.count = 0

\* C17. After every completed add_knowledge, mark_mine or mark_safe call no
\* sentence in knowledge holds a cell that is in safes, mines or moves_made.
NoResolvedCellInSentence ==
    pc = "idle" =>
        \A s \in Range(knowledge) :
            s.cells \cap (safes \cup mines \cup moves_made) = {}

\* A direct mark_mine call has returned, after add_knowledge calls, with
\* sentences that still hold cells.
NoResolvedCellWitness ==
    /\ pc = "idle"
    /\ op = "mark_mine"
    /\ calls > 0
    /\ mines # {}
    /\ \E s \in Range(knowledge) : s.cells # {}

\* C13. Sentence.mark_mine(cell) with cell in cells removes the cell and
\* takes 1 off count; Sentence.mark_safe(cell) with cell in cells removes the
\* cell and leaves count; with cell not in cells either call signals an error
\* and leaves cells and count as they were.
SentenceMarkContract ==
    LET old  == s_call.old
        cell == s_call.cell
    IN  /\ s_call.op = "mark_mine" =>
               IF cell \in old.cells
               THEN /\ ~s_call.raised
                    /\ sentence.cells = old.cells \ {cell}
                    /\ sentence.count = old.count - 1
               ELSE s_call.raised /\ sentence = old
        /\ s_call.op = "mark_safe" =>
               IF cell \in old.cells
               THEN /\ ~s_call.raised
                    /\ sentence.cells = old.cells \ {cell}
                    /\ sentence.count = old.count
               ELSE s_call.raised /\ sentence = old

\* mark_mine has raised on a sentence that holds other cells.
SentenceMarkWitness ==
    /\ s_call.op = "mark_mine"
    /\ s_call.raised
    /\ sentence.cells # {}
    /\ s_call.cell \notin sentence.cells

\* C14. known_mines(s) is s.cells if s.count = |s.cells| and the empty set
\* otherwise; known_safes(s) is s.cells if s.count = 0 and the empty set
\* otherwise; neither call changes s.
KnownContract ==
    /\ s_call.op = "known_mines" =>
           /\ s_call.ret = IF sentence.count = Cardinality(sentence.cells)
                           THEN sentence.cells ELSE {}
           /\ sentence = s_call.old
    /\ s_call.op = "known_safes" =>
           /\ s_call.ret = IF sentence.count = 0 THEN sentence.cells ELSE {}
           /\ sentence = s_call.old

\* known_mines has returned all the cells of a sentence that has cells.
KnownWitness ==
    /\ s_call.op = "known_mines"
    /\ s_call.ret # {}
    /\ s_call.ret = sentence.cells

----------------------------------------------------------------------------
\* C16. result(board, action): when the target cell is EMPTY it returns a
\* board that differs from the input only at action, where it holds
\* player(board), and the input board is left unchanged; when the target
\* cell is not EMPTY it raises and the input board is left unchanged.
ResultContract ==
    t_call.op = "result" =>
        LET a == t_call.action
            inp == t_call.input
        IN  /\ t_call.input_after = inp
            /\ t_call.raised <=> inp[a[1]][a[2]] # EMPTY
            /\ ~t_call.raised =>
                /\ t_call.board[a[1]][a[2]] = player(inp)
                /\ \A i, j \in 0..2 :
                    <<i, j>> # a => t_call.board[i][j] = inp[i][j]

\* A call of result on an empty cell of a board that already holds marks.
ResultWitness ==
    /\ t_call.op = "result"
    /\ ~t_call.raised
    /\ MarkCount(t_call.input, EMPTY) < 9

\* C20. For every board reachable from initial_state() by legal moves,
\* minimax(board) returns None if and only if terminal(board) holds, and
\* otherwise returns an action that is in actions(board), an empty cell.
MinimaxAction ==
    t_pc = "play" =>
        /\ t_move = None <=> terminal(ttt)
        /\ t_move # None =>
            /\ t_move \in Range(actions(ttt))
            /\ ttt[t_move[1]][t_move[2]] = EMPTY

\* minimax was asked on a board that is won while cells are still empty.
MinimaxWitness ==
    /\ t_pc = "play"
    /\ t_move = None
    /\ Len(actions(ttt)) > 0

\* C15. Optimal play: in every game from initial_state() in which one
\* player always plays the action minimax(board) returned while the other
\* plays any action of actions(board), the game never reaches a terminal
\* board whose winner is the other player.
NeverLoses ==
    \A p \in optimal : terminal(ttt) => winner(ttt) \in {p, NoWinner}

\* A finished game in which exactly one player always played the action of
\* minimax, and won.
NeverLosesWitness ==
    /\ terminal(ttt)
    /\ Cardinality(optimal) = 1
    /\ winner(ttt) \in optimal

====
